---------------------------- MODULE Spec2Model ----------------------------
(***************************************************************************)
(* The books resolver of src/schema.py (Query.books, get_author_by_id) and *)
(* the GraphQL object types it returns (Author, Book), over a database     *)
(* holding the books and authors relations.                                *)
(*                                                                         *)
(* Text is modelled by TLA+ strings, Python lists by sequences, the dict   *)
(* `values` by a function from its keys, and an optional value (None or a  *)
(* value) by a set of at most one element.                                 *)
(***************************************************************************)
EXTENDS Integers, Sequences, FiniteSets, TLC

VARIABLES
    authors_table,    \* the authors relation: id -> name, or None (no row)
    books_table,      \* the books relation, in storage order: rows (title, author_id)
    pc,               \* where the request stands
    author_ids,       \* argument of books: None, or a list of ids
    search,           \* argument of books: None, or a string
    limit,            \* argument of books: None, or an integer
    query_conditions, \* local of books
    values,           \* local of books
    query,            \* local of books
    rows,             \* local of books: what fetch_all returned
    books,            \* local of books: the list being built
    idx,              \* position of the for loop in rows (1-based)
    result,           \* what books returned: None until `return books`
    response,         \* what the GraphQL layer answers: None until completed
    calls,            \* the data-access calls issued so far, in order
    inflight,         \* data-access calls issued and not yet completed
    db_failed,        \* a data-access call of this request raised
    books_at_call,    \* the books relation when books was called
    authors_at_call,  \* the authors relation when books was called
    books_at_select,  \* the books relation when the selection ran
    authors_at_lookup,\* the authors relation when each lookup ran, in order
    nwrites           \* changes other clients made so far

vars == <<authors_table, books_table, pc, author_ids, search, limit,
          query_conditions, values, query, rows, books, idx, result, response,
          calls, inflight, db_failed, books_at_call, authors_at_call,
          books_at_select, authors_at_lookup, nwrites>>

req_vars == <<pc, author_ids, search, limit, query_conditions, values, query,
              rows, books, idx, result, response, calls, inflight, db_failed,
              books_at_call, authors_at_call, books_at_select,
              authors_at_lookup>>

---------------------------------------------------------------------------
(* Bounds of the model. *)

MaxBooks == 2
MaxLimit == 2
MaxWrites == 2

---------------------------------------------------------------------------
(* Optional values and Python truthiness. *)

None == {}
Some(x) == {x}
The(o) == CHOOSE x \in o : TRUE

\* a slip: `if author_ids is not None:`
ListIsNotNone(o) == o # None
\* `if author_ids:` -- a list is true when it is not None and not empty
TruthyList(o) == o # None /\ Len(The(o)) > 0
\* `if search:` -- a string is true when it is not None and not empty
TruthyStr(o) == o # None /\ Len(The(o)) > 0
\* `if limit:` -- an integer is true when it is not None and not zero
TruthyInt(o) == o # None /\ The(o) # 0

---------------------------------------------------------------------------
(* The data the model ranges over. *)

AuthorIds == {1, 2}
Names == {"Ann", "Bob"}
Titles == {"FooBar", "bar"}
AuthorIdLists == {<<>>, <<1>>, <<2>>, <<1, 2>>}
SearchStrings == {"", "foo", "BAR", "o_b"}
\* zero, which Python takes for false, and the positive counts
Limits == 0..MaxLimit

BookRows == [title : Titles, author_id : AuthorIds]
RECURSIVE SeqsUpTo(_, _)
SeqsUpTo(S, n) ==
    IF n = 0 THEN {<<>>}
    ELSE LET shorter == SeqsUpTo(S, n - 1)
         IN  shorter \cup {Append(s, x) : s \in {t \in shorter : Len(t) = n - 1}, x \in S}

BookTables == SeqsUpTo(BookRows, MaxBooks)
\* the authors relation: author 1, when it has a row, is Ann, and author 2 Bob
NameOf(id) == IF id = 1 THEN "Ann" ELSE "Bob"
AuthorTables == {t \in [AuthorIds -> {None} \cup {Some(n) : n \in Names}] :
                    \A id \in AuthorIds : t[id] \in {None, Some(NameOf(id))}}

---------------------------------------------------------------------------
(* Text. *)

Ch(s, i) == SubSeq(s, i, i)
StartsWith(s, p) == Len(s) >= Len(p) /\ SubSeq(s, 1, Len(p)) = p
EndsWith(s, p) == Len(s) >= Len(p) /\ SubSeq(s, Len(s) - Len(p) + 1, Len(s)) = p
Drop(s, n) == SubSeq(s, n + 1, Len(s))
\* t occurs in s as a substring
Contains(s, t) == \E i \in 1..(Len(s) - Len(t) + 1) : SubSeq(s, i, i + Len(t) - 1) = t

UpperLetters == "ABCDEFGHIJKLMNOPQRSTUVWXYZ"
LowerLetters == "abcdefghijklmnopqrstuvwxyz"
LowerCh(c) ==
    IF \E i \in 1..Len(UpperLetters) : Ch(UpperLetters, i) = c
    THEN Ch(LowerLetters, CHOOSE i \in 1..Len(UpperLetters) : Ch(UpperLetters, i) = c)
    ELSE c
RECURSIVE Lower(_)
Lower(s) == IF Len(s) = 0 THEN s ELSE LowerCh(Ch(s, 1)) \o Lower(Drop(s, 1))

\* sep.join(parts)
RECURSIVE Join(_, _)
Join(parts, sep) ==
    IF Len(parts) = 0 THEN ""
    ELSE IF Len(parts) = 1 THEN parts[1]
    ELSE parts[1] \o sep \o Join(Tail(parts), sep)

---------------------------------------------------------------------------
(* Query construction: Query.books, lines 67-84. *)

EmptyDict == [k \in {} |-> 0]
Put(d, k, v) == [j \in DOMAIN d \cup {k} |-> IF j = k THEN v ELSE d[j]]

AuthorCondition == "author_id = ANY(:author_ids)"
SearchCondition == "title ILIKE :search"
BaseQuery == "SELECT title, author_id FROM books"
LimitClause == " LIMIT :limit"

\* f"%{search}%"
SearchPattern(s) == "%" \o s \o "%"

\* a slip: conditions added for every argument that is not None
ConditionsWhenNotNone(a, s) ==
    LET c1 == IF a # None THEN <<AuthorCondition>> ELSE <<>>
    IN  IF s # None THEN Append(c1, SearchCondition) ELSE c1

\* lines 67, 70-71, 74-75: the list query_conditions
Conditions(a, s) ==
    LET c1 == IF TruthyList(a) THEN <<AuthorCondition>> ELSE <<>>
    IN  IF TruthyStr(s) THEN Append(c1, SearchCondition) ELSE c1

\* a slip: the cap bound one too high
BindingsLimitOffByOne(a, s, l) ==
    LET v1 == IF TruthyList(a) THEN Put(EmptyDict, "author_ids", The(a)) ELSE EmptyDict
        v2 == IF TruthyStr(s) THEN Put(v1, "search", SearchPattern(The(s))) ELSE v1
    IN  IF TruthyInt(l) THEN Put(v2, "limit", The(l) + 1) ELSE v2

\* lines 68, 72, 76, 84: the dict values
Bindings(a, s, l) ==
    LET v1 == IF TruthyList(a) THEN Put(EmptyDict, "author_ids", The(a)) ELSE EmptyDict
        v2 == IF TruthyStr(s) THEN Put(v1, "search", SearchPattern(The(s))) ELSE v1
    IN  IF TruthyInt(l) THEN Put(v2, "limit", The(l)) ELSE v2

\* a slip: the cap written into the text, `query += f" LIMIT {limit}"`
QueryTextInterpolated(conds, l) ==
    LET q1 == IF Len(conds) > 0
              THEN BaseQuery \o " WHERE " \o Join(conds, " AND ")
              ELSE BaseQuery
    IN  IF TruthyInt(l) THEN q1 \o " LIMIT " \o ToString(The(l)) ELSE q1

\* lines 78-83: the text of the statement
QueryText(conds, l) ==
    LET q1 == IF Len(conds) > 0
              THEN BaseQuery \o " WHERE " \o Join(conds, " AND ")
              ELSE BaseQuery
    IN  IF TruthyInt(l) THEN q1 \o LimitClause ELSE q1

\* get_author_by_id, lines 36-37
AuthorQuery == "SELECT id, name FROM authors WHERE id = :author_id"
AuthorBindings(author_id) == Put(EmptyDict, "author_id", author_id)

---------------------------------------------------------------------------
(* The database: what it does with a statement and its bound parameters. *)

IdentChars == "abcdefghijklmnopqrstuvwxyzABCDEFGHIJKLMNOPQRSTUVWXYZ0123456789_"
IsIdentCh(c) == \E i \in 1..Len(IdentChars) : Ch(IdentChars, i) = c
ParamKeys == {"author_ids", "search", "limit", "author_id"}
\* the statement holds the placeholder :k (and not a longer name starting with k)
HasPlaceholder(q, k) ==
    \E i \in 1..Len(q) :
        /\ Ch(q, i) = ":"
        /\ i + Len(k) <= Len(q)
        /\ SubSeq(q, i + 1, i + Len(k)) = k
        /\ (i + Len(k) = Len(q) \/ ~IsIdentCh(Ch(q, i + Len(k) + 1)))
Placeholders(q) == {k \in ParamKeys : HasPlaceholder(q, k)}

\* t LIKE p: % matches any run of characters, _ any one character, and a
\* backslash takes the next character of the pattern literally
RECURSIVE LikeFrom(_, _, _, _)
LikeFrom(t, i, p, j) ==
    IF j > Len(p) THEN i > Len(t)
    ELSE IF Ch(p, j) = "%"
         THEN LikeFrom(t, i, p, j + 1) \/ (i <= Len(t) /\ LikeFrom(t, i + 1, p, j))
    ELSE IF Ch(p, j) = "_"
         THEN i <= Len(t) /\ LikeFrom(t, i + 1, p, j + 1)
    ELSE IF Ch(p, j) = "\\"
         THEN /\ j < Len(p)
              /\ i <= Len(t)
              /\ Ch(t, i) = Ch(p, j + 1)
              /\ LikeFrom(t, i + 1, p, j + 2)
    ELSE i <= Len(t) /\ Ch(t, i) = Ch(p, j) /\ LikeFrom(t, i + 1, p, j + 1)
\* t ILIKE p: LIKE without regard to letter case
ILike(t, p) == LikeFrom(Lower(t), 1, Lower(p), 1)

\* The WHERE clause of a books statement: its conditions in order, or None
\* when the text is not a list of known conditions joined by AND.
RECURSIVE ParseConditions(_)
ParseConditions(s) ==
    LET first == IF StartsWith(s, AuthorCondition) THEN Some(AuthorCondition)
                 ELSE IF StartsWith(s, SearchCondition) THEN Some(SearchCondition)
                 ELSE None
    IN  IF first = None THEN None
        ELSE LET rest == Drop(s, Len(The(first)))
             IN  IF Len(rest) = 0 THEN Some(<<The(first)>>)
                 ELSE IF StartsWith(rest, " AND ")
                      THEN LET more == ParseConditions(Drop(rest, Len(" AND ")))
                           IN  IF more = None THEN None
                               ELSE Some(<<The(first)>> \o The(more))
                 ELSE None

\* A books statement taken apart: [conds, capped], or None (a syntax error).
ParseQuery(q) ==
    LET capped == EndsWith(q, LimitClause)
        body == IF capped THEN SubSeq(q, 1, Len(q) - Len(LimitClause)) ELSE q
    IN  IF ~StartsWith(body, BaseQuery) THEN None
        ELSE LET tail == Drop(body, Len(BaseQuery))
             IN  IF Len(tail) = 0 THEN Some([conds |-> <<>>, capped |-> capped])
                 ELSE IF StartsWith(tail, " WHERE ")
                      THEN LET cs == ParseConditions(Drop(tail, Len(" WHERE ")))
                           IN  IF cs = None THEN None
                               ELSE Some([conds |-> The(cs), capped |-> capped])
                 ELSE None

\* The statement can run: it parses and every placeholder has its parameter.
Runs(q, vals) == ParseQuery(q) # None /\ Placeholders(q) = DOMAIN vals

Range(f) == {f[i] : i \in DOMAIN f}
Min(a, b) == IF a <= b THEN a ELSE b

RowMatches(r, conds, vals) ==
    \A k \in 1..Len(conds) :
        IF conds[k] = AuthorCondition
        THEN r.author_id \in Range(vals["author_ids"])
        ELSE ILike(r.title, vals["search"])

\* fetch_all of a books statement: the qualifying rows in storage order,
\* cut to the first LIMIT rows.
FetchAll(q, vals, table) ==
    LET parsed == The(ParseQuery(q))
        qualify == SelectSeq(table, LAMBDA r : RowMatches(r, parsed.conds, vals))
    IN  IF parsed.capped
        THEN SubSeq(qualify, 1, Min(vals["limit"], Len(qualify)))
        ELSE qualify

\* fetch_one of the author statement: the row with that id, or None.
FetchOne(q, vals, table) ==
    LET id == vals["author_id"]
    IN  IF id \in DOMAIN table /\ table[id] # None
        THEN Some([id |-> id, name |-> The(table[id])])
        ELSE None

---------------------------------------------------------------------------
(* Row mapping: get_author_by_id lines 39-44, Query.books lines 94-95. *)

\* a slip: a placeholder author for a missing row
MakeAuthorDefault(row) == Some([name |-> IF row # None THEN The(row).name ELSE ""])
\* `if row: return Author(name=row['name']) else: return None`
MakeAuthor(row) == IF row # None THEN Some([name |-> The(row).name]) ELSE None
\* Book(title=row['title'], author=author)
MakeBook(row, author) == [title |-> row.title, author |-> author]
\* a slip: books.insert(0, book)
AddBookFirst(bs, book) == <<book>> \o bs
\* books.append(book)
AddBook(bs, book) == Append(bs, book)

FetchAllCall(q, vals) == [op |-> "fetch_all", query |-> q, values |-> vals]
\* db.fetch_one(query, values=values) for the author of a row
FetchOneCall(row) ==
    [op |-> "fetch_one", query |-> AuthorQuery, values |-> AuthorBindings(row.author_id)]
LastCall == calls[Len(calls)]

---------------------------------------------------------------------------
(* The GraphQL object types, lines 24-32, and the completion of the books  *)
(* field against them. A field declared with a plain type is non-null: a   *)
(* null in it is an error of the field, and the error travels up through   *)
(* every non-null parent -- here the Book, the list and the books field    *)
(* itself (-> List[Book]) -- so the whole data is null.                    *)

\* `author: Author` (line 32): the annotation has no `| None`
BookAuthorNullable == FALSE

NullInNonNull(bs, want_author) ==
    /\ want_author
    /\ ~BookAuthorNullable
    /\ \E i \in 1..Len(bs) : bs[i].author = None

\* want_author: the request's selection set asks for the author field
Complete(res, want_author) ==
    IF res = None \/ NullInNonNull(The(res), want_author)
    THEN [data |-> None, errors |-> TRUE]
    ELSE [data |-> Some([i \in 1..Len(The(res)) |->
                            IF want_author
                            THEN [title |-> The(res)[i].title,
                                  author |-> The(res)[i].author]
                            ELSE [title |-> The(res)[i].title]]),
          errors |-> FALSE]

---------------------------------------------------------------------------
(* The request. Python runs a coroutine without interruption from one      *)
(* await to the next, so each action is the code between two awaits.       *)

Init ==
    /\ authors_table \in AuthorTables
    /\ books_table \in BookTables
    /\ pc = "idle"
    /\ author_ids = None
    /\ search = None
    /\ limit = None
    /\ query_conditions = <<>>
    /\ values = EmptyDict
    /\ query = ""
    /\ rows = <<>>
    /\ books = <<>>
    /\ idx = 0
    /\ result = None
    /\ response = None
    /\ calls = <<>>
    /\ inflight = 0
    /\ db_failed = FALSE
    /\ books_at_call = <<>>
    /\ authors_at_call = [id \in AuthorIds |-> None]
    /\ books_at_select = <<>>
    /\ authors_at_lookup = <<>>
    /\ nwrites = 0

\* books is called with arguments a, s, l: lines 67-87, up to the await
Call(a, s, l) ==
    /\ pc = "idle"
    /\ author_ids' = a
    /\ search' = s
    /\ limit' = l
    /\ query_conditions' = Conditions(a, s)
    /\ values' = Bindings(a, s, l)
    /\ query' = QueryText(query_conditions', l)
    /\ calls' = <<FetchAllCall(query', values')>>
    /\ inflight' = 1
    /\ pc' = "fetch_all"
    /\ books_at_call' = books_table
    /\ authors_at_call' = authors_table
    /\ UNCHANGED <<authors_table, books_table, rows, books, idx, result, response,
                   db_failed, books_at_select, authors_at_lookup, nwrites>>

\* a slip: a row whose author is the previous row's reuses that author
\* instead of looking it up again
RECURSIVE SkipRepeats(_, _, _)
SkipRepeats(rs, bs, k) ==
    IF k > 1 /\ k <= Len(rs) /\ rs[k].author_id = rs[k - 1].author_id
    THEN SkipRepeats(rs, Append(bs, MakeBook(rs[k], bs[Len(bs)].author)), k + 1)
    ELSE [bs |-> bs, k |-> k]
AdvanceDedup(rs, bs, k) ==
    LET to == SkipRepeats(rs, bs, k)
    IN  /\ idx' = to.k
        /\ books' = to.bs
        /\ IF to.k <= Len(rs)
           THEN /\ calls' = Append(calls, FetchOneCall(rs[to.k]))
                /\ inflight' = 1
                /\ pc' = "fetch_one"
                /\ result' = result
           ELSE /\ calls' = calls
                /\ inflight' = 0
                /\ pc' = "returned"
                /\ result' = Some(to.bs)

\* The loop of lines 92-95 arrives at row k of rs with the list bs: it
\* awaits the lookup of row k, or, past the last row, returns bs (line 96).
Advance(rs, bs, k) ==
    /\ idx' = k
    /\ books' = bs
    /\ IF k <= Len(rs)
       THEN /\ calls' = Append(calls, FetchOneCall(rs[k]))
            /\ inflight' = 1
            /\ pc' = "fetch_one"
            /\ result' = result
       ELSE /\ calls' = calls
            /\ inflight' = 0
            /\ pc' = "returned"
            /\ result' = Some(bs)

\* fetch_all answers: lines 87, 91-93
FetchAllOk ==
    /\ pc = "fetch_all"
    /\ Runs(LastCall.query, LastCall.values)
    /\ rows' = FetchAll(LastCall.query, LastCall.values, books_table)
    /\ books_at_select' = books_table
    /\ Advance(rows', <<>>, 1)
    /\ UNCHANGED <<authors_table, books_table, author_ids, search, limit,
                   query_conditions, values, query, response, db_failed,
                   books_at_call, authors_at_call, authors_at_lookup, nwrites>>

\* fetch_all raises: lines 88-89 raise it again
FetchAllRaise ==
    /\ pc = "fetch_all"
    /\ db_failed' = TRUE
    /\ inflight' = 0
    /\ pc' = "raised"
    /\ UNCHANGED <<authors_table, books_table, author_ids, search, limit,
                   query_conditions, values, query, rows, books, idx, result,
                   response, calls, books_at_call, authors_at_call,
                   books_at_select, authors_at_lookup, nwrites>>

\* fetch_one answers: lines 38-44, 93-95, and on to the next row
FetchOneOk ==
    /\ pc = "fetch_one"
    /\ LastCall.query = AuthorQuery
    /\ Placeholders(LastCall.query) = DOMAIN LastCall.values
    /\ LET row == FetchOne(LastCall.query, LastCall.values, authors_table)
           book == MakeBook(rows[idx], MakeAuthor(row))
       IN  Advance(rows, AddBook(books, book), idx + 1)
    /\ authors_at_lookup' = Append(authors_at_lookup, authors_table)
    /\ UNCHANGED <<authors_table, books_table, author_ids, search, limit,
                   query_conditions, values, query, rows, response, db_failed,
                   books_at_call, authors_at_call, books_at_select, nwrites>>

\* a slip: the failure of a lookup caught, and the books built so far returned
FetchOneRaiseSwallowed ==
    /\ pc = "fetch_one"
    /\ db_failed' = TRUE
    /\ inflight' = 0
    /\ pc' = "returned"
    /\ result' = Some(books)
    /\ UNCHANGED <<authors_table, books_table, author_ids, search, limit,
                   query_conditions, values, query, rows, books, idx,
                   response, calls, books_at_call, authors_at_call,
                   books_at_select, authors_at_lookup, nwrites>>

\* fetch_one raises: nothing catches it, so it leaves books
FetchOneRaise ==
    /\ pc = "fetch_one"
    /\ db_failed' = TRUE
    /\ inflight' = 0
    /\ pc' = "raised"
    /\ UNCHANGED <<authors_table, books_table, author_ids, search, limit,
                   query_conditions, values, query, rows, books, idx, result,
                   response, calls, books_at_call, authors_at_call,
                   books_at_select, authors_at_lookup, nwrites>>

\* The GraphQL layer completes the field from what books returned or raised.
Respond(want_author) ==
    /\ pc \in {"returned", "raised"}
    /\ response' = Some(Complete(result, want_author))
    /\ pc' = "responded"
    /\ UNCHANGED <<authors_table, books_table, author_ids, search, limit,
                   query_conditions, values, query, rows, books, idx, result,
                   calls, inflight, db_failed, books_at_call, authors_at_call,
                   books_at_select, authors_at_lookup, nwrites>>

OptionOf(S) == {None} \cup {Some(x) : x \in S}

Next ==
    \/ \E a \in OptionOf(AuthorIdLists), s \in OptionOf(SearchStrings),
          l \in OptionOf(Limits) : Call(a, s, l)
    \/ FetchAllOk
    \/ FetchAllRaise
    \/ FetchOneOk
    \/ FetchOneRaise
    \/ \E w \in BOOLEAN : Respond(w)

Spec == Init /\ [][Next]_vars

---------------------------------------------------------------------------
(* Other clients of the database change the relations while the request is *)
(* suspended in an await. What they did before the call is part of Init.   *)

Suspended == pc \in {"fetch_all", "fetch_one"} /\ nwrites < MaxWrites

InsertBook(t, a) ==
    /\ Suspended
    /\ Len(books_table) < MaxBooks
    /\ books_table' = Append(books_table, [title |-> t, author_id |-> a])
    /\ nwrites' = nwrites + 1
    /\ UNCHANGED <<authors_table, req_vars>>

DeleteBook(k) ==
    /\ Suspended
    /\ k \in 1..Len(books_table)
    /\ books_table' = SubSeq(books_table, 1, k - 1) \o SubSeq(books_table, k + 1, Len(books_table))
    /\ nwrites' = nwrites + 1
    /\ UNCHANGED <<authors_table, req_vars>>

InsertAuthor(id) ==
    /\ Suspended
    /\ authors_table[id] = None
    /\ authors_table' = [authors_table EXCEPT ![id] = Some(NameOf(id))]
    /\ nwrites' = nwrites + 1
    /\ UNCHANGED <<books_table, req_vars>>

DeleteAuthor(id) ==
    /\ Suspended
    /\ authors_table[id] # None
    /\ authors_table' = [authors_table EXCEPT ![id] = None]
    /\ nwrites' = nwrites + 1
    /\ UNCHANGED <<books_table, req_vars>>

NextConc ==
    \/ Call(None, None, None)
    \/ FetchAllOk
    \/ FetchAllRaise
    \/ FetchOneOk
    \/ FetchOneRaise
    \/ \E w \in BOOLEAN : Respond(w)
    \/ \E t \in Titles, a \in AuthorIds : InsertBook(t, a)
    \/ \E k \in 1..MaxBooks : DeleteBook(k)
    \/ \E id \in AuthorIds : InsertAuthor(id)
    \/ \E id \in AuthorIds : DeleteAuthor(id)

SpecConc == Init /\ [][NextConc]_vars

---------------------------------------------------------------------------
(* What the claims speak of, stated apart from the code. *)

\* an argument is present and not empty (zero, for the count)
NonEmptyList(o) == o # None /\ The(o) # <<>>
NonEmptyStr(o) == o # None /\ The(o) # ""
NonZeroInt(o) == o # None /\ The(o) # 0
Count(b) == IF b THEN 1 ELSE 0

Called == pc # "idle"
Returned == result # None
NoFilters == author_ids = None /\ search = None /\ limit = None

\* the statement ends in a row-count cap
HasCap(q) == EndsWith(q, LimitClause)
\* the number of conditions the database finds in the WHERE clause
WhereCount(q) == Len(The(ParseQuery(q)).conds)

\* the author of id in a state of the authors relation
AuthorIn(table, id) == IF table[id] = None THEN None ELSE Some([name |-> The(table[id])])

\* s occurs in t, letter case aside
ContainsNoCase(t, s) == Contains(Lower(t), Lower(s))

\* the rows of table that pass the author filter and the search filter of the request
Qualifies(r) ==
    /\ NonEmptyList(author_ids) => r.author_id \in Range(The(author_ids))
    /\ NonEmptyStr(search) => ILike(r.title, "%" \o The(search) \o "%")
Qualifying(table) == SelectSeq(table, Qualifies)

\* the statement books builds for arguments a, s, l
StatementOf(a, s, l) == QueryText(Conditions(a, s), l)

---------------------------------------------------------------------------
(* The claims. *)

\* C1: the number of conditions generated equals the number of present,
\* non-empty arguments: one WHERE condition each for author_ids and search,
\* a LIMIT cap (not a condition) for limit; 0 to 3 in all.
C1_ConditionCount ==
    Called =>
        /\ Len(query_conditions) = Count(NonEmptyList(author_ids)) + Count(NonEmptyStr(search))
        /\ ParseQuery(query) # None
        /\ WhereCount(query) = Len(query_conditions)
        /\ HasCap(query) <=> NonZeroInt(limit)
        /\ Len(query_conditions) + Count(HasCap(query))
             = Count(NonEmptyList(author_ids)) + Count(NonEmptyStr(search)) + Count(NonZeroInt(limit))
C1_Witness ==
    /\ Called
    /\ Len(query_conditions) = 2
    /\ HasCap(query)
    /\ NonZeroInt(limit)

\* C2: with author_ids = S and no other filter, books returns only books
\* whose author reference is in S when S is not empty (all of them, in
\* order), and all books, as without author_ids, when S is empty.
C2_AuthorFilter ==
    (Returned /\ author_ids # None /\ search = None /\ limit = None) =>
        /\ Len(The(result)) = Len(rows)
        /\ \A i \in 1..Len(rows) : The(result)[i].title = rows[i].title
        /\ IF The(author_ids) # <<>>
           THEN /\ \A i \in 1..Len(rows) : rows[i].author_id \in Range(The(author_ids))
                /\ rows = SelectSeq(books_at_select,
                                    LAMBDA r : r.author_id \in Range(The(author_ids)))
           ELSE /\ rows = books_at_select
                /\ calls[1] = FetchAllCall(StatementOf(None, None, None), Bindings(None, None, None))
C2_Witness ==
    /\ Returned
    /\ author_ids # None /\ The(author_ids) # <<>>
    /\ search = None /\ limit = None
    /\ Len(rows) = 1
    /\ Len(books_table) = 2
C2_WitnessEmpty ==
    /\ Returned
    /\ author_ids = Some(<<>>)
    /\ search = None /\ limit = None
    /\ Len(The(result)) = 2

\* C3: with search = s, books returns only books whose title contains s as
\* a substring, letter case aside; a book whose title does not contain s is
\* never returned.
C3_SearchIsSubstring ==
    (Returned /\ search # None) =>
        \A i \in 1..Len(rows) : ContainsNoCase(rows[i].title, The(search))
\* what does hold: the title matches the pattern %s% under ILIKE
C3_SearchIsILike ==
    (Returned /\ NonEmptyStr(search)) =>
        \A i \in 1..Len(rows) : ILike(rows[i].title, SearchPattern(The(search)))
C3_Witness ==
    /\ Returned
    /\ search = Some("foo")
    /\ Len(rows) = 1
    /\ Len(books_table) = 2

\* C4: with a positive limit n and m rows qualifying under the other
\* filters, books returns exactly min(n, m) books; without a limit it
\* returns all m.
C4_Limit ==
    Returned =>
        LET m == Len(Qualifying(books_at_select))
        IN  /\ (limit # None /\ The(limit) > 0) => Len(The(result)) = Min(The(limit), m)
            /\ limit = None => Len(The(result)) = m
C4_Witness ==
    /\ Returned
    /\ limit = Some(1)
    /\ Len(Qualifying(books_at_select)) = 2
    /\ Len(The(result)) = 1

\* C5: a book whose author has no row in the authors relation is still in
\* the answer, with a null author: the request succeeds, no book is left
\* out, and no author is half filled.
C5_MissingAuthorIsNull ==
    (pc = "responded" /\ ~db_failed) =>
        /\ ~The(response).errors
        /\ The(response).data # None
        /\ Len(The(The(response).data)) = Len(rows)
\* what does hold of the value books returns (before the field is completed)
C5_ResolverKeepsBook ==
    Returned =>
        /\ Len(The(result)) = Len(rows)
        /\ \A i \in 1..Len(rows) :
               The(result)[i].author \in {None} \cup {Some([name |-> n]) : n \in Names}

\* C6: a request returns the full list or fails as a whole: when fetch_all
\* or a fetch_one fails the failure reaches the caller, no book is returned
\* (not the books of the rows before the failing one), no author is made up.
C6_AllOrNothing ==
    /\ db_failed =>
          /\ result = None
          /\ pc \in {"raised", "responded"}
          /\ pc = "responded" => The(response) = [data |-> None, errors |-> TRUE]
    /\ pc = "raised" => db_failed
    /\ Returned => Len(The(result)) = Len(rows)
C6_Witness ==
    /\ db_failed
    /\ pc = "responded"
    /\ Len(books) >= 1
    /\ Len(rows) > Len(books)

\* C7 as claimed: with no filters, books returns every row of the books
\* relation, each with the author the authors relation had for it when
\* books was called, whatever other clients do meanwhile.
C7_MatchesCallTime ==
    (Returned /\ NoFilters) =>
        /\ Len(The(result)) = Len(books_at_call)
        /\ \A i \in 1..Len(The(result)) :
              /\ i <= Len(books_at_call)
              /\ The(result)[i].title = books_at_call[i].title
              /\ The(result)[i].author = AuthorIn(authors_at_call, books_at_call[i].author_id)
\* C7 as amended: with no filters, books returns every row the books
\* relation held when the selection ran, each with the author the authors
\* relation had for it when that row's lookup ran; these are the relations
\* of the time of the call when no other client changed them meanwhile.
C7_MatchesReadTime ==
    (Returned /\ NoFilters) =>
        /\ rows = books_at_select
        /\ Len(The(result)) = Len(rows)
        /\ Len(authors_at_lookup) = Len(rows)
        /\ \A i \in 1..Len(rows) :
              /\ The(result)[i].title = rows[i].title
              /\ The(result)[i].author = AuthorIn(authors_at_lookup[i], rows[i].author_id)
        /\ nwrites = 0 =>
              /\ books_at_select = books_at_call
              /\ \A i \in 1..Len(rows) : authors_at_lookup[i] = authors_at_call
C7_Witness ==
    /\ Returned
    /\ NoFilters
    /\ nwrites > 0
    /\ Len(rows) = 2
    /\ \E i \in 1..Len(rows) :
           The(result)[i].author # AuthorIn(authors_at_call, rows[i].author_id)

\* C8 as claimed: the text of the statement sent (compared when the call is
\* issued) depends only on which arguments are present (not None), not on
\* their values.
C8_TextByPresence ==
    pc = "fetch_all" =>
        \A a \in OptionOf(AuthorIdLists), s \in OptionOf(SearchStrings), l \in OptionOf(Limits) :
            ((a = None <=> author_ids = None) /\ (s = None <=> search = None)
                /\ (l = None <=> limit = None))
            => StatementOf(a, s, l) = query
\* C8 as amended: the text of the statement sent (compared when the call is
\* issued) depends only on which arguments are present and not empty (not
\* zero), not on their values; and every
\* value supplied reaches the database as a bound parameter whose key has
\* its placeholder in the statement, in the selection and in each lookup
\* (each call is looked at while it is the one in flight).
C8_TextByNonEmptiness ==
    Called =>
        /\ pc = "fetch_all" =>
              \A a \in OptionOf(AuthorIdLists), s \in OptionOf(SearchStrings), l \in OptionOf(Limits) :
                  ((NonEmptyList(a) <=> NonEmptyList(author_ids))
                      /\ (NonEmptyStr(s) <=> NonEmptyStr(search))
                      /\ (NonZeroInt(l) <=> NonZeroInt(limit)))
                  => StatementOf(a, s, l) = calls[1].query
        /\ calls[1].query = query
        /\ inflight = 1 => Placeholders(LastCall.query) = DOMAIN LastCall.values
        /\ NonEmptyList(author_ids) => calls[1].values["author_ids"] = The(author_ids)
        /\ NonEmptyStr(search) => calls[1].values["search"] = "%" \o The(search) \o "%"
        /\ NonZeroInt(limit) => calls[1].values["limit"] = The(limit)
        /\ \A k \in 2..Len(calls) :
              /\ calls[k].query = AuthorQuery
              /\ calls[k].values["author_id"] = rows[k - 1].author_id
C8_Witness ==
    /\ Called
    /\ author_ids = Some(<<1, 2>>)
    /\ search = Some("foo")
    /\ limit = Some(2)
    /\ Len(calls) = 3

\* C9: on success books returns one Book per row of the selection, in the
\* order of the rows, the i-th with the title of the i-th row.
C9_OneBookPerRow ==
    Returned =>
        /\ Len(The(result)) = Len(rows)
        /\ \A i \in 1..Len(rows) : The(result)[i].title = rows[i].title
C9_Witness ==
    /\ Returned
    /\ Len(rows) = 2
    /\ rows[1].title # rows[2].title
    /\ The(result)[1].title = rows[1].title

\* C10: in a request that does not fail the selection is issued once and
\* first, then one lookup per returned row, in row order, each only after
\* the one before has completed, repeated author ids included.
C10_Lookups ==
    /\ inflight \in {0, 1}
    /\ inflight = 1 <=> pc \in {"fetch_all", "fetch_one"}
    /\ Called =>
          /\ Len(calls) >= 1
          /\ calls[1].op = "fetch_all"
          /\ \A k \in 2..Len(calls) :
                /\ calls[k].op = "fetch_one"
                /\ k - 1 <= Len(rows)
                /\ calls[k].values["author_id"] = rows[k - 1].author_id
    /\ (Called /\ ~db_failed) => Len(calls) - 1 = Len(books) + Count(pc = "fetch_one")
    /\ Returned => Len(calls) = 1 + Len(rows)
C10_Witness ==
    /\ Returned
    /\ Len(rows) = 2
    /\ rows[1].author_id = rows[2].author_id
    /\ Len(calls) = 3

=============================================================================
